---- MODULE Spec2Model ----
(***************************************************************************)
(* A model of JobsSchedulerLocked (src/src/job_scheduler.rs): the facade   *)
(* of tokio-cron-scheduler.  Three specifications share the variables:     *)
(*   SpecNew       the two constructors and init_context;                  *)
(*   Spec          init() and the lazily initializing operations, called   *)
(*                 concurrently through clones of one facade;              *)
(*   SpecShutdown  the shutdown handler, clones, signal listeners and      *)
(*                 shutdown().                                             *)
(***************************************************************************)
EXTENDS Naturals, Sequences, FiniteSets, TLC

\* ------------------------------------------------------------------ bounds
NumCallers == 2

NumHandles == 2

MaxHandlers == 2

MaxShutdowns == 2

MaxWorkers == 2

NumJobs == 2

Callers == 1..NumCallers

Handles == 1..NumHandles

\* The handlers that are ever registered; 0 is None.
Handlers == 1..MaxHandlers

\* ------------------------------------------------------- error kinds
\* A collaborator's failure is a JobSchedulerError of some kind: CantInit
\* itself, or any other kind ("Other").
CollabErrors == {"CantInit", "Other"}

Outcomes == {"Ok"} \cup CollabErrors

\* ------------------------------------------------------ the constructors
\* A mutant of ContextSteps: the Context is built after the job code
\* registry's init.
ContextSteps_context_late ==
    << "metadata_storage", "notification_storage", "job_code",
       "Context", "notify_code" >>

\* init_context: the inits and Context::new in the order of its statements.
ContextSteps ==
    << "metadata_storage", "notification_storage", "Context",
       "job_code", "notify_code" >>

\* Context::new returns a Context, not a Result: it cannot fail.
Fallible == {"metadata_storage", "notification_storage", "job_code", "notify_code"}

Constructors == {"new", "new_with_storage_and_code"}

\* ------------------------------------------------------------- the actors
\* A mutant of ActorOrder: the JobRunner is initialized before the
\* NotificationRunner.
ActorOrder_job_runner_early ==
    << "job_creator", "job_deleter", "notification_creator",
       "notification_deleter", "job_runner", "notification_runner",
       "scheduler" >>

\* init_actors: the actors in the order of its statements.
ActorOrder ==
    << "job_creator", "job_deleter", "notification_creator",
       "notification_deleter", "notification_runner", "job_runner",
       "scheduler" >>

Actors == {ActorOrder[i] : i \in 1..Len(ActorOrder)}

\* scheduler.init(&context) returns nothing; every other init is awaited with ?
ActorOutcomes(a) == IF a = "scheduler" THEN {"Ok"} ELSE Outcomes

\* ---------------------------------------------------------------- the jobs
\* A job's Uuid.
JobIds == 1..NumJobs

\* A JobLocked, as far as the facade looks at it: its guid.
Jobs == {[guid |-> j] : j \in JobIds}

\* A u64 (next_tick) is written as its four 16-bit limbs, the most significant
\* first.  The stored values the model draws from: 0, 1, a date of today
\* (1 700 000 000), and the values around the sign bit: 2^63 - 1, 2^63,
\* 2^64 - 1 700 000 000 and 2^64 - 1.
TickValues ==
    { << 0, 0, 0, 0 >>,
      << 0, 0, 0, 1 >>,
      << 0, 0, 25939, 61696 >>,
      << 32767, 65535, 65535, 65535 >>,
      << 32768, 0, 0, 0 >>,
      << 65535, 65535, 39596, 3840 >>,
      << 65535, 65535, 65535, 65535 >> }

\* An Option is a sequence of at most one element: << >> is None.
\* What the metadata storage may hold for a job: nothing, or a next_tick.
StoredMeta == { << >> } \cup { << t >> : t \in TickValues }

LazyOps == {"add", "remove", "tick", "start", "time_till_next_job", "next_tick_for_job"}

Ops == {"init"} \cup LazyOps

\* The operations whose argument and return value the model keeps.
JobOps == {"add", "next_tick_for_job"}

VARIABLES
    \* the constructor call
    ctor,       \* which constructor is called
    collab,     \* what each injected collaborator's init answers
    cpc,        \* the caller's position
    tstat,      \* the state of the run of init_context
    cdone,      \* the steps of init_context executed so far, in order
    ictx,       \* what init_context returned
    chan,       \* the std::sync::mpsc channel of new_with_storage_and_code
    cresult,    \* what the constructor returned
    workers,    \* the worker threads of the runtime the constructor is called in
    onWorker,   \* the calling task runs on one of these workers
    \* the facade, shared by every clone
    inited,     \* Arc<RwLock<bool>>
    initCount,  \* how many times each actor's init was invoked
    ready,      \* the actors whose init has completed successfully
    schedLock,  \* the holder of the Scheduler's write guard (0: free)
    initReturned, \* a call of init() has returned
    \* the calls in progress, one task per clone
    pc,         \* the position of the call
    op,         \* the operation called
    idx,        \* init_actors: the next actor to initialize
    runLog,     \* history: the actor inits of the call's run of init_actors, each
                \* with whether it succeeded
    saw,        \* the value of the flag the operation read on entry
    ran,        \* how many times this call started init_actors
    cfail,      \* where a collaborator failed in this call: "init", "use", "none"
    result,     \* what the call returns
    \* the handles of the facade and their shutdown notifiers
    hkind,      \* who owns the handle: a user task or a spawned listener
    notifier,   \* the handle's field shutdown_notifier (0: None)
    nextHandler,\* the next handler to be registered
    spc,        \* the position of the handle's task in shutdown()
    taken,      \* shutdown()'s local variable notify (0: None)
    stopped,    \* scheduler.shutdown() has completed in this call
    firedNow,   \* the handler was invoked in this call
    sresult,    \* what the handle's last shutdown() returned
    fired,      \* how many times each handler was invoked
    armed,      \* set_shutdown_handler was called on the handle, no removal since
    calls,      \* the shutdown() calls completed on the handle since then
    invoked,    \* the handler invocations made through the handle since then
    reg,        \* history: the handler last registered on the handle (0 after a
                \* removal), kept until the shutdown() that follows has returned
    \* the jobs
    store,      \* the metadata storage: per job id, an Option of its next_tick
    arg,        \* the call's argument: add's job, next_tick_for_job's id
    retval,     \* the value inside the call's Ok: add's Uuid, or
                \* next_tick_for_job's Option<DateTime<Utc>>
    created     \* what JobCreator::add answered in this call ("none": not called)

ctorVars == << workers, onWorker, ctor, collab, cpc, tstat, cdone, ictx, chan, cresult >>

jobVars == << store, arg, retval, created >>

facadeVars == << inited, initCount, ready, schedLock, initReturned >>

callVars == << pc, op, idx, runLog, saw, ran, cfail, result >>

handleVars ==
    << hkind, notifier, nextHandler, spc, taken, stopped, firedNow, sresult,
       fired, armed, calls, invoked, reg >>

vars == << ctorVars, facadeVars, callVars, handleVars, jobVars >>

\* ------------------------------------------------------------------------
\* The state of a freshly constructed facade and of tasks that hold clones
\* of it and have called nothing yet.
FreshFacade ==
    /\ inited = FALSE
    /\ initCount = [a \in Actors |-> 0]
    /\ ready = {}
    /\ schedLock = 0
    /\ initReturned = FALSE

\* The metadata storage of a facade nothing was added to.
NoJobs == store = [j \in JobIds |-> << >>]

IdleCalls ==
    /\ arg = [c \in Callers |-> << >>]
    /\ retval = [c \in Callers |-> << >>]
    /\ created = [c \in Callers |-> "none"]
    /\ pc = [c \in Callers |-> "idle"]
    /\ op = [c \in Callers |-> "none"]
    /\ idx = [c \in Callers |-> 0]
    /\ runLog = [c \in Callers |-> << >>]
    /\ saw = [c \in Callers |-> FALSE]
    /\ ran = [c \in Callers |-> 0]
    /\ cfail = [c \in Callers |-> "none"]
    /\ result = [c \in Callers |-> "none"]

\* The constructor returns one handle, with shutdown_notifier: None.
OneHandle ==
    /\ hkind = [h \in Handles |-> IF h = 1 THEN "user" ELSE "none"]
    /\ notifier = [h \in Handles |-> 0]
    /\ nextHandler = 1
    /\ spc = [h \in Handles |-> "idle"]
    /\ taken = [h \in Handles |-> 0]
    /\ stopped = [h \in Handles |-> FALSE]
    /\ firedNow = [h \in Handles |-> FALSE]
    /\ sresult = [h \in Handles |-> "none"]
    /\ fired = [k \in Handlers |-> 0]
    /\ armed = [h \in Handles |-> FALSE]
    /\ calls = [h \in Handles |-> 0]
    /\ invoked = [h \in Handles |-> 0]
    /\ reg = [h \in Handles |-> 0]

\* ================================================================ SpecNew
InitNew ==
    /\ ctor \in Constructors
    /\ collab \in [Fallible -> Outcomes]
    /\ cpc = "call"
    /\ tstat = "none"
    /\ cdone = << >>
    /\ ictx = "none"
    /\ chan = "empty"
    /\ cresult = "none"
    /\ workers \in 1..MaxWorkers
    /\ onWorker \in BOOLEAN
    /\ NoJobs
    /\ FreshFacade
    /\ IdleCalls
    /\ OneHandle

\* new(): init_context(...).await.map_err(|_| CantInit)?
NewResult(r) == IF r = "Ok" THEN "Facade" ELSE "CantInit"

\* new_with_storage_and_code(): storage_init_rx.recv().map_err(|_| CantInit)??
\* The first ? answers a closed channel, the second the Result that was sent.
WithStorageResult(ch) ==
    IF ch = "closed" THEN "CantInit"
    ELSE IF ch = "Ok" THEN "Facade"
    ELSE ch

\* A mutant of StepFails: a failed step does not end init_context.
StepFails_ignored(out) == FALSE

\* init_context: every init is awaited with ?, which returns the error.
StepFails(out) == out # "Ok"

\* recv() of std::sync::mpsc blocks the calling thread; when that thread is a
\* worker of the runtime, the worker polls no task while the caller waits.
BlockedWorkers == IF onWorker /\ cpc = "recv" THEN 1 ELSE 0

\* new() runs init_context in the calling task; the task spawned by
\* new_with_storage_and_code() runs when a worker is free to poll it.
TaskCanRun == ctor = "new" \/ workers > BlockedWorkers

\* new() awaits init_context in the calling task.
new_call ==
    /\ ctor = "new"
    /\ cpc = "call"
    /\ cpc' = "await"
    /\ tstat' = "run"
    /\ UNCHANGED << jobVars, workers, onWorker, ctor, collab, cdone, ictx, chan, cresult, facadeVars, callVars, handleVars >>

\* new_with_storage_and_code() spawns a task that runs init_context and
\* blocks in recv().
with_storage_spawn ==
    /\ ctor = "new_with_storage_and_code"
    /\ cpc = "call"
    /\ cpc' = "recv"
    /\ tstat' = "run"
    /\ UNCHANGED << jobVars, workers, onWorker, ctor, collab, cdone, ictx, chan, cresult, facadeVars, callVars, handleVars >>

\* One step of init_context: the next collaborator's init, or Context::new.
init_context ==
    /\ tstat = "run"
    /\ TaskCanRun
    /\ LET s == ContextSteps[Len(cdone) + 1]
           out == IF s \in Fallible THEN collab[s] ELSE "Ok"
       IN  /\ cdone' = Append(cdone, s)
           /\ IF StepFails(out)
              THEN /\ ictx' = out
                   /\ tstat' = "finished"
              ELSE IF Len(cdone) + 1 = Len(ContextSteps)
              THEN /\ ictx' = "Ok"
                   /\ tstat' = "finished"
              ELSE UNCHANGED << ictx, tstat >>
    /\ UNCHANGED << jobVars, workers, onWorker, ctor, collab, cpc, chan, cresult, facadeVars, callVars, handleVars >>

\* The spawned task sends what init_context returned.
with_storage_send ==
    /\ ctor = "new_with_storage_and_code"
    /\ tstat = "finished"
    /\ TaskCanRun
    /\ chan' = ictx
    /\ tstat' = "exited"
    /\ UNCHANGED << jobVars, workers, onWorker, ctor, collab, cpc, cdone, ictx, cresult, facadeVars, callVars, handleVars >>

\* The spawned task is dropped at an await before it sends (the runtime shuts
\* down, and a worker that is not blocked drops its tasks): the sender is
\* dropped and the channel closes.
with_storage_task_dropped ==
    /\ ctor = "new_with_storage_and_code"
    /\ tstat = "run"
    /\ TaskCanRun
    /\ chan' = "closed"
    /\ tstat' = "dropped"
    /\ UNCHANGED << jobVars, workers, onWorker, ctor, collab, cpc, cdone, ictx, cresult, facadeVars, callVars, handleVars >>

new_return ==
    /\ ctor = "new"
    /\ cpc = "await"
    /\ tstat = "finished"
    /\ cresult' = NewResult(ictx)
    /\ cpc' = "returned"
    /\ UNCHANGED << jobVars, workers, onWorker, ctor, collab, tstat, cdone, ictx, chan, facadeVars, callVars, handleVars >>

with_storage_recv ==
    /\ ctor = "new_with_storage_and_code"
    /\ cpc = "recv"
    /\ chan # "empty"
    /\ cresult' = WithStorageResult(chan)
    /\ cpc' = "returned"
    /\ UNCHANGED << jobVars, workers, onWorker, ctor, collab, tstat, cdone, ictx, chan, facadeVars, callVars, handleVars >>

\* =================================================================== Spec
\* The facade has been constructed by new() with collaborators that did not
\* fail.
Constructed ==
    /\ ctor = "new"
    /\ collab = [s \in Fallible |-> "Ok"]
    /\ cpc = "returned"
    /\ tstat = "finished"
    /\ cdone = ContextSteps
    /\ ictx = "Ok"
    /\ chan = "empty"
    /\ cresult = "Facade"
    /\ workers = 1
    /\ onWorker = FALSE

Init ==
    /\ Constructed
    /\ NoJobs
    /\ FreshFacade
    /\ IdleCalls
    /\ OneHandle

\* The operations are methods of a JobsSchedulerLocked: a task calls them
\* once a constructor has returned Ok(facade).
HasFacade == cresult = "Facade"

\* A mutant of NeedsInit: the flag is not consulted.
NeedsInit_always(flag) == TRUE

\* init(): if self.inited().await { return Ok(()) }
\* the lazy operations: if !self.inited().await { s.init().await? }
NeedsInit(flag) == ~flag

\* A mutant of InitedValue: init() leaves the flag unset.
InitedValue_unset == FALSE

\* init(): *w = true
InitedValue == TRUE

\* init(): init_actors().await.map_err(|_| CantInit)
InitResult(out) == IF out = "Ok" THEN "Ok" ELSE "CantInit"

\* A mutant of TickResult: the Scheduler's error is returned as it is.
TickResult_passed(out) == out

\* What each operation returns for the answer of the collaborator it calls.
TickResult(out) == IF out = "Ok" THEN "Ok" ELSE "TickError"

StartResult(out) == IF out = "Ok" THEN "Ok" ELSE "StartScheduler"

TimeTillNextJobResult(out) == IF out = "Ok" THEN "Ok" ELSE "CantGetTimeUntil"

\* add, remove and next_tick_for_job return the collaborator's error as it is.
PassResult(out) == out

UseResult(o, out) ==
    CASE o = "tick" -> TickResult(out)
      [] o = "start" -> StartResult(out)
      [] o = "time_till_next_job" -> TimeTillNextJobResult(out)
      [] OTHER -> PassResult(out)

\* tick() and start() take the Scheduler's write guard.
UsesScheduler(o) == o \in {"tick", "start"}

\* The arguments the model keeps: add's job, next_tick_for_job's job id.
Args(o) ==
    CASE o = "add" -> { << job >> : job \in Jobs }
      [] o = "next_tick_for_job" -> { << j >> : j \in JobIds }
      [] OTHER -> { << >> }

\* A task calls an operation on its clone.  A lazy operation reads the flag
\* first; init() is entered directly.
Call(c, o) ==
    /\ HasFacade
    /\ pc[c] = "idle"
    /\ op' = [op EXCEPT ![c] = o]
    /\ \E a \in Args(o) : arg' = [arg EXCEPT ![c] = a]
    /\ IF o = "init"
       THEN /\ pc' = [pc EXCEPT ![c] = "init"]
            /\ UNCHANGED saw
       ELSE /\ saw' = [saw EXCEPT ![c] = inited]
            /\ pc' = [pc EXCEPT ![c] = IF NeedsInit(inited) THEN "init" ELSE "use"]
    /\ UNCHANGED << store, retval, created, ctorVars, facadeVars, idx, runLog, ran,
                    cfail, result, handleVars >>

\* init() reads the flag.
init_read(c) ==
    /\ pc[c] = "init"
    /\ IF op[c] = "init"
       THEN saw' = [saw EXCEPT ![c] = inited]
       ELSE UNCHANGED saw
    /\ IF NeedsInit(inited)
       THEN /\ pc' = [pc EXCEPT ![c] = "write"]
            /\ UNCHANGED result
       ELSE IF op[c] = "init"
       THEN /\ pc' = [pc EXCEPT ![c] = "ret"]
            /\ result' = [result EXCEPT ![c] = "Ok"]
       ELSE /\ pc' = [pc EXCEPT ![c] = "use"]
            /\ UNCHANGED result
    /\ UNCHANGED << jobVars, ctorVars, facadeVars, op, idx, runLog, ran, cfail, handleVars >>

\* A mutant of InitedAfterActors: a failed bring-up resets the flag.
InitedAfterActors_reset(flag, out) == IF out = "Ok" THEN flag ELSE FALSE

\* init(): the Result of init_actors is mapped and returned; the flag written
\* before the bring-up is not written again, whatever the outcome.
InitedAfterActors(flag, out) == flag

\* A mutant of InitFails: the operation goes on after a failed init().
InitFails_ignored(r) == FALSE

\* the lazy operations: s.init().await? returns init()'s error.
InitFails(r) == r # "Ok"

\* init() sets the flag, then starts init_actors on a clone.
init_write(c) ==
    /\ pc[c] = "write"
    /\ inited' = InitedValue
    /\ pc' = [pc EXCEPT ![c] = "actors"]
    /\ idx' = [idx EXCEPT ![c] = 1]
    /\ ran' = [ran EXCEPT ![c] = ran[c] + 1]
    /\ UNCHANGED << jobVars, ctorVars, initCount, ready, schedLock, initReturned, op, saw,
                    runLog, cfail, result, handleVars >>

\* One step of init_actors: the next actor's write guard is taken, its init
\* is called, the guard is dropped.
init_actors(c, out) ==
    /\ pc[c] = "actors"
    /\ LET a == ActorOrder[idx[c]]
       IN  /\ out \in ActorOutcomes(a)
           /\ a = "scheduler" => schedLock = 0
           /\ initCount' = [initCount EXCEPT ![a] = initCount[a] + 1]
           /\ ready' = IF out = "Ok" THEN ready \cup {a} ELSE ready
           /\ runLog' = [runLog EXCEPT ![c] = Append(runLog[c], << a, out = "Ok" >>)]
    /\ inited' = InitedAfterActors(inited, out)
    /\ IF out = "Ok" /\ idx[c] < Len(ActorOrder)
       THEN /\ idx' = [idx EXCEPT ![c] = idx[c] + 1]
            /\ UNCHANGED << pc, cfail, result >>
       ELSE /\ idx' = [idx EXCEPT ![c] = 0]
            /\ cfail' = [cfail EXCEPT ![c] = IF out # "Ok" THEN "init" ELSE "none"]
            /\ IF op[c] = "init" \/ InitFails(InitResult(out))
               THEN /\ pc' = [pc EXCEPT ![c] = "ret"]
                    /\ result' = [result EXCEPT ![c] = InitResult(out)]
               ELSE /\ pc' = [pc EXCEPT ![c] = "use"]
                    /\ UNCHANGED result
    /\ UNCHANGED << jobVars, ctorVars, schedLock, initReturned, op, saw, ran, handleVars >>

\* The operation proper: the call into the actor, the Scheduler or the
\* storage, and the mapping of its answer.
use(c, out) ==
    /\ pc[c] = "use"
    /\ op[c] \notin JobOps
    /\ out \in Outcomes
    /\ UsesScheduler(op[c]) => schedLock = 0
    /\ cfail' = [cfail EXCEPT ![c] = IF out # "Ok" THEN "use" ELSE "none"]
    /\ result' = [result EXCEPT ![c] = UseResult(op[c], out)]
    /\ pc' = [pc EXCEPT ![c] = "ret"]
    /\ UNCHANGED << jobVars, ctorVars, facadeVars, op, idx, runLog, saw, ran, handleVars >>

\* job.guid()
Guid(job) == job.guid

\* add: JobCreator::add(&context, job).await?; Ok(guid)
AddValue(guid, out) == IF out = "Ok" THEN << guid >> ELSE << >>

\* add(), after the lazy init: the creator is called with the job, and the
\* guid read on entry is returned if the creator did not fail.
add(c, out) ==
    /\ pc[c] = "use"
    /\ op[c] = "add"
    /\ out \in Outcomes
    /\ created' = [created EXCEPT ![c] = out]
    /\ cfail' = [cfail EXCEPT ![c] = IF out # "Ok" THEN "use" ELSE "none"]
    /\ result' = [result EXCEPT ![c] = UseResult(op[c], out)]
    /\ retval' = [retval EXCEPT ![c] = AddValue(Guid(arg[c][1]), out)]
    /\ pc' = [pc EXCEPT ![c] = "ret"]
    /\ UNCHANGED << store, arg, ctorVars, facadeVars, op, idx, runLog, saw, ran,
                    handleVars >>

\* The two's complement of a u64 in limbs: every limb is complemented, then
\* one is added with the carries.
Negate(u) ==
    LET n == [i \in 1..4 |-> 65535 - u[i]]
        s4 == n[4] + 1
        s3 == n[3] + (s4 \div 65536)
        s2 == n[2] + (s3 \div 65536)
        s1 == n[1] + (s2 \div 65536)
    IN  << s1 % 65536, s2 % 65536, s3 % 65536, s4 % 65536 >>

\* ts as i64: the 64 bits are kept and read as two's complement.  An i64 is
\* a sign and the limbs of its absolute value.
AsI64(ts) ==
    IF ts[1] >= 32768
    THEN [neg |-> TRUE, secs |-> Negate(ts)]
    ELSE [neg |-> FALSE, secs |-> ts]

\* NaiveDateTime::from_timestamp(secs, 0) panics when secs is outside the
\* dates chrono represents (years -262144 to 262143, about -8.33e12 to
\* 8.21e12 seconds).  The limits lie inside the third limb's values 1940 and
\* 1911; TickValues holds no value whose third limb is in between.
FromTimestampPanics(i) ==
    ~(i.secs[1] = 0 /\ i.secs[2] < (IF i.neg THEN 1940 ELSE 1911))

\* DateTime::from_utc(ts, Utc): the seconds since the epoch, read in UTC.
FromUtc(i) == [secs |-> i, tz |-> "Utc"]

\* .filter(|t| *t != 0)
NotSentinel(t) == t # << 0, 0, 0, 0 >>

\* v.map(|vv| vv.next_tick).filter(..).map(from_timestamp).map(from_utc) for
\* a get() that answered Ok(v).
NextTick(v) ==
    IF v = << >> THEN << >>
    ELSE IF ~NotSentinel(v[1]) THEN << >>
    ELSE << FromUtc(AsI64(v[1])) >>

\* next_tick_for_job(), after the lazy init: the storage's get() is mapped.
\* A get() that fails is returned as it is; the storage is not written.
next_tick_for_job(c, out) ==
    /\ pc[c] = "use"
    /\ op[c] = "next_tick_for_job"
    /\ out \in Outcomes
    /\ LET v == store[arg[c][1]]
           panics == out = "Ok" /\ v # << >> /\ NotSentinel(v[1])
                        /\ FromTimestampPanics(AsI64(v[1]))
       IN  /\ cfail' = [cfail EXCEPT ![c] = IF out # "Ok" THEN "use" ELSE "none"]
           /\ result' = [result EXCEPT ![c] =
                            IF panics THEN "panic" ELSE UseResult(op[c], out)]
           /\ retval' = [retval EXCEPT ![c] =
                            IF out = "Ok" /\ ~panics THEN << NextTick(v) >> ELSE << >>]
    /\ pc' = [pc EXCEPT ![c] = "ret"]
    /\ UNCHANGED << store, arg, created, ctorVars, facadeVars, op, idx, runLog, saw,
                    ran, handleVars >>

\* The call returns to its caller.
return(c) ==
    /\ pc[c] = "ret"
    /\ pc' = [pc EXCEPT ![c] = "idle"]
    /\ op' = [op EXCEPT ![c] = "none"]
    /\ saw' = [saw EXCEPT ![c] = FALSE]
    /\ ran' = [ran EXCEPT ![c] = 0]
    /\ cfail' = [cfail EXCEPT ![c] = "none"]
    /\ result' = [result EXCEPT ![c] = "none"]
    /\ runLog' = [runLog EXCEPT ![c] = << >>]
    /\ arg' = [arg EXCEPT ![c] = << >>]
    /\ retval' = [retval EXCEPT ![c] = << >>]
    /\ created' = [created EXCEPT ![c] = "none"]
    /\ initReturned' = (initReturned \/ op[c] = "init")
    /\ UNCHANGED << store, ctorVars, inited, initCount, ready, schedLock, idx, handleVars >>

\* The task that called the constructor, the first to hold the facade.
FirstCaller == CHOOSE c \in Callers : \A d \in Callers : c <= d

\* The constructor, and then the operations of the task that called it.
NextNew ==
    \/ new_call
    \/ with_storage_spawn
    \/ init_context
    \/ with_storage_send
    \/ with_storage_task_dropped
    \/ new_return
    \/ with_storage_recv
    \/ \E o \in Ops : Call(FirstCaller, o)
    \/ init_read(FirstCaller)
    \/ init_write(FirstCaller)
    \/ \E out \in Outcomes : init_actors(FirstCaller, out)
    \/ \E out \in Outcomes : use(FirstCaller, out)
    \/ \E out \in Outcomes : add(FirstCaller, out)
    \/ \E out \in Outcomes : next_tick_for_job(FirstCaller, out)
    \/ return(FirstCaller)

SpecNew == InitNew /\ [][NextNew]_vars

Next ==
    \/ \E c \in Callers, o \in Ops : Call(c, o)
    \/ \E c \in Callers : init_read(c)
    \/ \E c \in Callers : init_write(c)
    \/ \E c \in Callers, out \in Outcomes : init_actors(c, out)
    \/ \E c \in Callers, out \in Outcomes : use(c, out)
    \/ \E c \in Callers, out \in Outcomes : add(c, out)
    \/ \E c \in Callers, out \in Outcomes : next_tick_for_job(c, out)
    \/ \E c \in Callers : return(c)

Spec == Init /\ [][Next]_vars

\* =========================================================== SpecShutdown
\* impl Clone: shutdown_notifier: self.shutdown_notifier.clone().  The
\* Option is a field of the handle; the clone shares the handler it holds at
\* that moment, not the field.
CloneNotifier(slot) == slot

\* A mutant of SetNotifier: a handler already held is kept, the new one is
\* dropped.
SetNotifier_keep_first(k) == IF k > 1 THEN k - 1 ELSE k

\* set_shutdown_handler: self.shutdown_notifier = Some(Arc::new(RwLock::new(job)))
SetNotifier(k) == k

\* remove_shutdown_handler: self.shutdown_notifier = None
RemovedNotifier == 0

\* shutdown(): let mut notify = None; std::mem::swap(&mut self.shutdown_notifier, &mut notify)
SwapTaken(slot) == slot

\* A mutant of SwapLeft: the notifier is cloned out of the handle, not taken.
SwapLeft_kept(slot) == slot

SwapLeft(slot) == 0

\* shutdown(): Ok(())
ShutdownResult == "Ok"

\* A mutant of ShutdownNextPc: the handler is invoked before the stop.
ShutdownNextPc_notify_first(p, t) ==
    CASE p = "lock" -> IF t # 0 THEN "notify" ELSE "stop"
      [] p = "notify" -> "stop"
      [] p = "stop" -> "ret"

\* The order of shutdown() after the swap: the Scheduler's write guard, the
\* Scheduler's stop, then the handler if one was taken.
ShutdownNextPc(p, t) ==
    CASE p = "lock" -> "stop"
      [] p = "stop" -> IF t # 0 THEN "notify" ELSE "ret"
      [] p = "notify" -> "ret"

\* The handle a clone gets: the first one not in use.
FreeHandle(h) ==
    /\ hkind[h] = "none"
    /\ \A g \in Handles : g < h => hkind[g] # "none"

\* A user task that is not inside a call on its handle.
UserIdle(h) == hkind[h] = "user" /\ spc[h] = "idle"

NewHandle(src, dst, kind, at) ==
    /\ hkind' = [hkind EXCEPT ![dst] = kind]
    /\ spc' = [spc EXCEPT ![dst] = at]
    /\ notifier' = [notifier EXCEPT ![dst] = CloneNotifier(notifier[src])]
    /\ armed' = [armed EXCEPT ![dst] = CloneNotifier(notifier[src]) # 0]
    /\ reg' = [reg EXCEPT ![dst] = reg[src]]
    /\ UNCHANGED << jobVars, ctorVars, facadeVars, callVars, nextHandler, taken, stopped,
                    firedNow, sresult, fired, calls, invoked >>

\* A user clones its handle and gives the clone to another task.
clone(src, dst) ==
    /\ UserIdle(src)
    /\ FreeHandle(dst)
    /\ NewHandle(src, dst, "user", "idle")

\* shutdown_on_signal: a clone moves into a spawned task that waits for the
\* signal.
shutdown_on_signal(src, dst) ==
    /\ UserIdle(src)
    /\ FreeHandle(dst)
    /\ NewHandle(src, dst, "signal", "wait")

\* shutdown_on_ctrl_c: a clone moves into a spawned task that waits for ctrl-c.
shutdown_on_ctrl_c(src, dst) ==
    /\ UserIdle(src)
    /\ FreeHandle(dst)
    /\ NewHandle(src, dst, "ctrl_c", "wait")

set_shutdown_handler(h) ==
    /\ UserIdle(h)
    /\ nextHandler <= MaxHandlers
    /\ notifier' = [notifier EXCEPT ![h] = SetNotifier(nextHandler)]
    /\ nextHandler' = nextHandler + 1
    /\ armed' = [armed EXCEPT ![h] = TRUE]
    /\ calls' = [calls EXCEPT ![h] = 0]
    /\ invoked' = [invoked EXCEPT ![h] = 0]
    /\ reg' = [reg EXCEPT ![h] = nextHandler]
    /\ UNCHANGED << jobVars, ctorVars, facadeVars, callVars, hkind, spc, taken, stopped,
                    firedNow, sresult, fired >>

remove_shutdown_handler(h) ==
    /\ UserIdle(h)
    /\ notifier' = [notifier EXCEPT ![h] = RemovedNotifier]
    /\ armed' = [armed EXCEPT ![h] = FALSE]
    /\ calls' = [calls EXCEPT ![h] = 0]
    /\ invoked' = [invoked EXCEPT ![h] = 0]
    /\ reg' = [reg EXCEPT ![h] = 0]
    /\ UNCHANGED << jobVars, ctorVars, facadeVars, callVars, hkind, nextHandler, spc, taken,
                    stopped, firedNow, sresult, fired >>

\* The listener's wait ends without a shutdown: signal(..) fails (expect
\* panics), recv() answers None, or ctrl_c() fails (expect panics).
listener_ends(h) ==
    /\ hkind[h] \in {"signal", "ctrl_c"}
    /\ spc[h] = "wait"
    /\ spc' = [spc EXCEPT ![h] = "ended"]
    /\ UNCHANGED << jobVars, ctorVars, facadeVars, callVars, hkind, notifier, nextHandler,
                    taken, stopped, firedNow, sresult, fired, armed, calls, invoked, reg >>

\* A mutant of ShutdownInited: shutdown() sets the flag.
ShutdownInited_set(flag) == TRUE

\* shutdown() has no `if !self.inited()` block and no write of the flag.
ShutdownInited(flag) == flag

\* shutdown() is called: by a user, or by a listener whose signal arrived.
\* Its first statements swap the notifier out of the handle.
shutdown_swap(h) ==
    /\ \/ UserIdle(h)
       \/ hkind[h] \in {"signal", "ctrl_c"} /\ spc[h] = "wait"
    /\ calls[h] < MaxShutdowns
    /\ taken' = [taken EXCEPT ![h] = SwapTaken(notifier[h])]
    /\ notifier' = [notifier EXCEPT ![h] = SwapLeft(notifier[h])]
    /\ spc' = [spc EXCEPT ![h] = "lock"]
    /\ sresult' = [sresult EXCEPT ![h] = "none"]
    /\ inited' = ShutdownInited(inited)
    /\ UNCHANGED << jobVars, ctorVars, initCount, ready, schedLock, initReturned, callVars,
                    hkind, nextHandler, stopped,
                    firedNow, fired, armed, calls, invoked, reg >>

\* let mut scheduler = self.scheduler.write().await
shutdown_lock(h) ==
    /\ spc[h] = "lock"
    /\ schedLock = 0
    /\ schedLock' = h
    /\ spc' = [spc EXCEPT ![h] = ShutdownNextPc("lock", taken[h])]
    /\ UNCHANGED << jobVars, ctorVars, inited, initCount, ready, initReturned, callVars,
                    hkind, notifier, nextHandler, taken, stopped, firedNow, sresult,
                    fired, armed, calls, invoked, reg >>

\* scheduler.shutdown().await
shutdown_stop(h) ==
    /\ spc[h] = "stop"
    /\ stopped' = [stopped EXCEPT ![h] = TRUE]
    /\ spc' = [spc EXCEPT ![h] = ShutdownNextPc("stop", taken[h])]
    /\ UNCHANGED << jobVars, ctorVars, facadeVars, callVars, hkind, notifier, nextHandler,
                    taken, firedNow, sresult, fired, armed, calls, invoked, reg >>

\* if let Some(notify) = notify { notify.write().await; notify().await }
\* The handler's own write guard is taken and dropped within this step.
shutdown_notify(h) ==
    /\ spc[h] = "notify"
    /\ firedNow' = [firedNow EXCEPT ![h] = TRUE]
    /\ fired' = [fired EXCEPT ![taken[h]] = fired[taken[h]] + 1]
    /\ invoked' = [invoked EXCEPT ![h] = invoked[h] + 1]
    /\ spc' = [spc EXCEPT ![h] = ShutdownNextPc("notify", taken[h])]
    /\ UNCHANGED << jobVars, ctorVars, facadeVars, callVars, hkind, notifier, nextHandler,
                    taken, stopped, sresult, armed, calls, reg >>

\* shutdown() returns: the Scheduler's guard, held since shutdown_lock, is
\* dropped.  A listener's task ends with it.
shutdown_return(h) ==
    /\ spc[h] = "ret"
    /\ schedLock' = IF schedLock = h THEN 0 ELSE schedLock
    /\ sresult' = [sresult EXCEPT ![h] = ShutdownResult]
    /\ calls' = [calls EXCEPT ![h] = calls[h] + 1]
    /\ spc' = [spc EXCEPT ![h] = IF hkind[h] = "user" THEN "idle" ELSE "ended"]
    /\ taken' = [taken EXCEPT ![h] = 0]
    /\ stopped' = [stopped EXCEPT ![h] = FALSE]
    /\ firedNow' = [firedNow EXCEPT ![h] = FALSE]
    /\ reg' = [reg EXCEPT ![h] = 0]
    /\ UNCHANGED << jobVars, ctorVars, inited, initCount, ready, initReturned, callVars,
                    hkind, notifier, nextHandler, fired, armed, invoked >>

NextShutdown ==
    \/ \E src, dst \in Handles : clone(src, dst)
    \/ \E src, dst \in Handles : shutdown_on_signal(src, dst)
    \/ \E src, dst \in Handles : shutdown_on_ctrl_c(src, dst)
    \/ \E h \in Handles : set_shutdown_handler(h)
    \/ \E h \in Handles : remove_shutdown_handler(h)
    \/ \E h \in Handles : listener_ends(h)
    \/ \E h \in Handles : shutdown_swap(h)
    \/ \E h \in Handles : shutdown_lock(h)
    \/ \E h \in Handles : shutdown_stop(h)
    \/ \E h \in Handles : shutdown_notify(h)
    \/ \E h \in Handles : shutdown_return(h)

SpecShutdown == Init /\ [][NextShutdown]_vars

\* ================================================================ SpecJobs
\* A constructed facade whose metadata storage holds any of the stored values
\* for each job id.
InitJobs ==
    /\ Constructed
    /\ store \in [JobIds -> StoredMeta]
    /\ FreshFacade
    /\ IdleCalls
    /\ OneHandle

\* One task adds jobs and asks for next ticks.
NextJobs ==
    \/ \E o \in JobOps : Call(FirstCaller, o)
    \/ init_read(FirstCaller)
    \/ init_write(FirstCaller)
    \/ \E out \in Outcomes : init_actors(FirstCaller, out)
    \/ \E out \in Outcomes : add(FirstCaller, out)
    \/ \E out \in Outcomes : next_tick_for_job(FirstCaller, out)
    \/ return(FirstCaller)

SpecJobs == InitJobs /\ [][NextJobs]_vars

\* ================================================================ SpecLife
\* The handle the constructor returned.
FirstHandle == CHOOSE h \in Handles : \A g \in Handles : h <= g

\* One task's life with the facade: its operations, its registrations and
\* its shutdown() calls on the handle it got from the constructor.
NextLife ==
    \/ \E o \in Ops : Call(FirstCaller, o)
    \/ init_read(FirstCaller)
    \/ init_write(FirstCaller)
    \/ \E out \in Outcomes : init_actors(FirstCaller, out)
    \/ \E out \in Outcomes : use(FirstCaller, out)
    \/ \E out \in Outcomes : add(FirstCaller, out)
    \/ \E out \in Outcomes : next_tick_for_job(FirstCaller, out)
    \/ return(FirstCaller)
    \/ set_shutdown_handler(FirstHandle)
    \/ remove_shutdown_handler(FirstHandle)
    \/ shutdown_swap(FirstHandle)
    \/ shutdown_lock(FirstHandle)
    \/ shutdown_stop(FirstHandle)
    \/ shutdown_notify(FirstHandle)
    \/ shutdown_return(FirstHandle)

SpecLife == Init /\ [][NextLife]_vars

\* ================================================================ claims
\* C1: on one handle with a registered shutdown handler, the shutdown() calls
\* that follow the registration invoke the handler once in all, in the first
\* of them: once a first call has returned the handle has made exactly one
\* invocation, a second call adds none, and every call returns Ok.
C1_ShutdownTwiceInvokesOnce ==
    \A h \in Handles :
        armed[h] /\ calls[h] >= 1 =>
            /\ invoked[h] = 1
            /\ spc[h] \in {"idle", "ended"} => sresult[h] = "Ok"

\* C1 witness: a second shutdown() has returned on a handle with a registered
\* handler.
C1_Witness ==
    \E h \in Handles :
        armed[h] /\ calls[h] = 2 /\ invoked[h] = 1 /\ spc[h] = "idle" /\ sresult[h] = "Ok"

\* C2: a handler registered once is invoked at most once in total, whatever
\* handles of the facade (the original, clones, signal and ctrl-c listeners)
\* shutdown() is called through.
C2_HandlerAtMostOnceInTotal == \A k \in Handlers : fired[k] <= 1

\* C3: of two init() calls in sequence only the first runs init_actors: a
\* returned init() leaves the flag set, an init() that reads the flag set
\* returns Ok without starting init_actors, and an init() that reads it unset
\* starts init_actors exactly once.
C3_InitTwiceRunsBringUpOnce ==
    /\ initReturned => inited
    /\ \A c \in Callers :
        op[c] = "init" /\ pc[c] = "ret" =>
            /\ saw[c] => ran[c] = 0 /\ result[c] = "Ok"
            /\ ~saw[c] => ran[c] = 1

\* C3 witness: after an init() has returned, another init() returns Ok having
\* read the flag set and run nothing.
C3_Witness ==
    /\ initReturned
    /\ \E c \in Callers :
        /\ op[c] = "init" /\ pc[c] = "ret"
        /\ saw[c] /\ ran[c] = 0 /\ result[c] = "Ok"

\* C4: a lazily initializing operation (add, remove, tick, start,
\* time_till_next_job, next_tick_for_job) called on a facade whose flag it
\* reads unset, and during which no collaborator fails, returns Ok and the
\* shared flag is set when it returns.
C4_LazyInitSucceeds ==
    \A c \in Callers :
        pc[c] = "ret" /\ op[c] \in LazyOps /\ ~saw[c] /\ cfail[c] = "none" =>
            result[c] = "Ok" /\ inited

\* C4 witness: every lazy operation can be the first call on the facade: it
\* ran init_actors itself and returned Ok.
C4_Witness ==
    \E c \in Callers :
        /\ pc[c] = "ret" /\ op[c] \in LazyOps /\ ~saw[c]
        /\ ran[c] = 1 /\ cfail[c] = "none" /\ result[c] = "Ok"
        /\ \A a \in Actors : initCount[a] = 1

\* C5: under concurrent first calls no actor's init is invoked a second time.
C5_ActorsInitializedAtMostOnce == \A a \in Actors : initCount[a] <= 1

\* C6: the flag is set, and an operation that has passed its check uses an
\* actor, only once all seven actor inits have completed successfully.
C6_InitedMeansBringUpDone ==
    /\ inited => ready = Actors
    /\ \A c \in Callers : pc[c] = "use" => ready = Actors

\* C7: within a shutdown() call the handler is invoked only after
\* scheduler.shutdown() has completed in that call.
C7_HandlerAfterStop == \A h \in Handles : firedNow[h] => stopped[h]

\* C7 witness: a shutdown() call has stopped the Scheduler and invoked the
\* handler.
C7_Witness == \E h \in Handles : firedNow[h] /\ stopped[h] /\ spc[h] = "ret"

\* C8: the notifier is shared by the handles of a facade: what one handle
\* registers or removes is what every other handle holds, whether it was
\* created before or after.
C8_NotifierSharedByHandles ==
    LET Live(h) == hkind[h] # "none" /\ spc[h] # "ended"
    IN  \A g, h \in Handles : Live(g) /\ Live(h) => notifier[g] = notifier[h]

\* C9: a failed initialization step surfaces as CantInit and as nothing else:
\* from new(), from new_with_storage_and_code(), and from init() or a lazily
\* initializing operation whose actor init failed.
C9_InitFailuresAreCantInit ==
    /\ cpc = "returned" /\ cresult # "Facade" => cresult = "CantInit"
    /\ \A c \in Callers : pc[c] = "ret" /\ cfail[c] = "init" => result[c] = "CantInit"

\* C10: on a facade whose flag is set, tick() returns Ok or TickError,
\* start() Ok or StartScheduler, time_till_next_job() Ok or CantGetTimeUntil,
\* and the error is returned exactly when the Scheduler or the storage failed.
C10_ErrorKinds ==
    \A c \in Callers :
        pc[c] = "ret" /\ saw[c] =>
            /\ op[c] = "tick" =>
                result[c] = IF cfail[c] = "use" THEN "TickError" ELSE "Ok"
            /\ op[c] = "start" =>
                result[c] = IF cfail[c] = "use" THEN "StartScheduler" ELSE "Ok"
            /\ op[c] = "time_till_next_job" =>
                result[c] = IF cfail[c] = "use" THEN "CantGetTimeUntil" ELSE "Ok"

\* C10 witness: on an initialized facade a tick() has returned TickError while
\* another caller's start() or time_till_next_job() returned its own error.
C10_Witness ==
    \E c, d \in Callers :
        /\ inited /\ ready = Actors
        /\ pc[c] = "ret" /\ saw[c] /\ op[c] = "tick" /\ result[c] = "TickError"
        /\ pc[d] = "ret" /\ saw[d]
        /\ \/ op[d] = "start" /\ result[d] = "StartScheduler"
           \/ op[d] = "time_till_next_job" /\ result[d] = "CantGetTimeUntil"

\* C13: init_context runs its steps in one order: metadata storage init,
\* notification storage init, Context construction, job code registry init,
\* notification code registry init.  The Context is constructed only after
\* both storage inits succeeded, and no actor init starts before init_context
\* has returned a Context.
C13_ContextBringUpOrder ==
    LET order == << "metadata_storage", "notification_storage", "Context",
                    "job_code", "notify_code" >>
    IN  /\ Len(cdone) <= Len(order)
        /\ \A i \in 1..Len(cdone) : cdone[i] = order[i]
        /\ \A i \in 1..Len(cdone) :
               cdone[i] = "Context" =>
                   /\ collab["metadata_storage"] = "Ok"
                   /\ collab["notification_storage"] = "Ok"
                   /\ \A j \in 1..Len(cdone) :
                          cdone[j] \in {"job_code", "notify_code"} => i < j
        /\ (\E a \in Actors : initCount[a] > 0) \/ (\E c \in Callers : pc[c] = "actors")
               => ictx = "Ok" /\ cpc = "returned"

\* C13 witness: all five steps have run and the first actor has been
\* initialized on the facade that was returned.
C13_Witness ==
    /\ Len(cdone) = Len(ContextSteps)
    /\ cresult = "Facade"
    /\ initCount["job_creator"] > 0

\* C14: context bring-up is fail-fast: a failed step is the last step that
\* runs, no Context and no facade is produced, and the constructor returns an
\* error.
C14_ContextBringUpFailFast ==
    \A i \in 1..Len(cdone) :
        cdone[i] \in Fallible /\ collab[cdone[i]] # "Ok" =>
            /\ i = Len(cdone)
            /\ ictx # "Ok"
            /\ cresult # "Facade"
            /\ cpc = "returned" => cresult \in CollabErrors

\* C14 witness: the job code registry's init failed after the Context was
\* built, and new_with_storage_and_code() has returned an error.
C14_Witness ==
    /\ ctor = "new_with_storage_and_code"
    /\ Len(cdone) > 0
    /\ cdone[Len(cdone)] = "job_code"
    /\ collab["job_code"] # "Ok"
    /\ cpc = "returned"
    /\ cresult \in CollabErrors

\* C18: new_with_storage_and_code() returns for every worker count of the
\* runtime, also when the calling task occupies the only worker: until the
\* constructor has returned, a step of the constructor or of its task can be
\* taken.
C18_ConstructorCanProceed == cpc = "returned" \/ ENABLED NextNew

\* C16: shutdown() holds the Scheduler's guard only while it stops the
\* Scheduler: when the handler is invoked the guard has been released, so a
\* handler that calls tick(), start() or shutdown() on a clone can take it.
C16_GuardReleasedBeforeHandler ==
    \A h \in Handles : spc[h] = "notify" \/ firedNow[h] => schedLock # h

\* C17: a shutdown() call on a handle takes the handler most recently
\* registered on it and no earlier one, and none when the handler was removed
\* after the last registration or none was registered; in each case it stops
\* the Scheduler, invokes exactly a handler it took, and returns Ok.
C17_LatestHandlerInvoked ==
    \A h \in Handles :
        /\ spc[h] \in {"lock", "stop", "notify", "ret"} => taken[h] = reg[h]
        /\ spc[h] = "ret" => stopped[h] /\ (firedNow[h] <=> reg[h] # 0)
        /\ calls[h] > 0 /\ spc[h] \in {"idle", "ended"} => sresult[h] = "Ok"

\* C17 witness: two handlers were registered on one handle, and its
\* shutdown() has stopped the Scheduler and invoked the second one only.
C17_Witness ==
    \E h \in Handles :
        /\ spc[h] = "ret" /\ stopped[h] /\ firedNow[h]
        /\ taken[h] = MaxHandlers /\ nextHandler > MaxHandlers
        /\ fired[taken[h]] > 0
        /\ \A k \in Handlers : k # taken[h] => fired[k] = 0

\* C15: within one run of init_actors the actors are initialized in the order
\* JobCreator, JobDeleter, NotificationCreator, NotificationDeleter,
\* NotificationRunner, JobRunner, Scheduler: each init completes before the
\* next starts, and after a failed init no later actor is initialized in that
\* run.
C15_ActorInitOrder ==
    LET order == << "job_creator", "job_deleter", "notification_creator",
                    "notification_deleter", "notification_runner",
                    "job_runner", "scheduler" >>
    IN  \A c \in Callers :
            /\ Len(runLog[c]) <= Len(order)
            /\ \A i \in 1..Len(runLog[c]) :
                   /\ runLog[c][i][1] = order[i]
                   /\ ~runLog[c][i][2] => i = Len(runLog[c])
            /\ cfail[c] = "init" =>
                   /\ Len(runLog[c]) > 0
                   /\ ~runLog[c][Len(runLog[c])][2]
                   /\ \A i \in 1..Len(runLog[c]) : runLog[c][i][1] # "scheduler"

\* C15 witness: one caller's run has initialized all seven actors, the
\* Scheduler last, while another's stopped at the failed init of the
\* NotificationRunner.
C15_Witness ==
    \E c, d \in Callers :
        /\ Len(runLog[c]) = Len(ActorOrder)
        /\ runLog[c][Len(ActorOrder)] = << "scheduler", TRUE >>
        /\ pc[d] = "ret" /\ cfail[d] = "init"
        /\ runLog[d][Len(runLog[d])] = << "notification_runner", FALSE >>

\* C19: the inited flag is monotonic: it starts false and no step of any
\* operation (a failed bring-up, shutdown(), remove(), a registration) takes
\* it from true back to false.
C19_InitedMonotonic ==
    /\ ~inited
    /\ [][inited => inited']_vars

\* C19 witness: the flag is set although the bring-up of a remove() failed,
\* and a shutdown() has returned on the handle.
C19_Witness ==
    /\ inited
    /\ pc[FirstCaller] = "ret" /\ op[FirstCaller] = "remove"
    /\ cfail[FirstCaller] = "init"
    /\ calls[FirstHandle] > 0 /\ sresult[FirstHandle] = "Ok"

\* C20: no step of shutdown() changes the inited flag or initializes an
\* actor: on a facade that was never initialized shutdown() returns Ok with
\* the flag still false and no actor init run.
C20_ShutdownDoesNotInit ==
    [][\A h \in Handles :
          spc'[h] # spc[h] =>
              /\ inited' = inited
              /\ initCount' = initCount
              /\ ready' = ready]_vars

\* C20 witness: shutdown() has returned Ok on a facade whose flag is false and
\* whose actors were never initialized.
C20_Witness ==
    /\ calls[FirstHandle] > 0 /\ sresult[FirstHandle] = "Ok"
    /\ spc[FirstHandle] = "idle"
    /\ ~inited
    /\ \A a \in Actors : initCount[a] = 0

\* C11: next_tick_for_job(id) returns None when the storage has no metadata
\* for id or the stored next_tick is the sentinel 0, and otherwise Some(t)
\* with t exactly the stored next_tick as seconds after the epoch, in UTC.
C11_NextTickIsStoredValue ==
    \A c \in Callers :
        pc[c] = "ret" /\ op[c] = "next_tick_for_job" /\ cfail[c] = "none" =>
            LET v == store[arg[c][1]]
            IN  /\ result[c] = "Ok"
                /\ retval[c] =
                       IF v = << >> \/ v = << << 0, 0, 0, 0 >> >>
                       THEN << << >> >>
                       ELSE << << [secs |-> [neg |-> FALSE, secs |-> v[1]],
                                   tz |-> "Utc"] >> >>

\* C12: add(job) returns Ok(id) only when the lazy initialization of the call
\* did not fail and the creator's add succeeded, and then id is the guid of
\* the job passed in; when the initialization fails the creator is not called
\* and no id is returned; when the creator fails, its error is returned and
\* no id.
C12_AddReturnsJobId ==
    \A c \in Callers :
        op[c] = "add" =>
            LET initFailed == Len(runLog[c]) > 0 /\ ~runLog[c][Len(runLog[c])][2]
            IN  /\ initFailed => created[c] = "none" /\ retval[c] = << >>
                /\ pc[c] = "ret" /\ initFailed => result[c] \in CollabErrors
                /\ pc[c] = "ret" /\ result[c] = "Ok" =>
                       /\ ~initFailed
                       /\ created[c] = "Ok"
                       /\ retval[c] = << arg[c][1].guid >>
                /\ created[c] \in CollabErrors =>
                       result[c] = created[c] /\ retval[c] = << >>

\* C12 witness: an add() has run the bring-up, called the creator and returned
\* the guid of its job.
C12_Witness ==
    \E c \in Callers :
        /\ pc[c] = "ret" /\ op[c] = "add" /\ result[c] = "Ok"
        /\ Len(runLog[c]) = Len(ActorOrder)
        /\ created[c] = "Ok"
        /\ retval[c] = << Guid(arg[c][1]) >>

====
